---- MODULE Spec2Model ----
(***************************************************************************)
(* A model of mesh::Bitmap<Heap> and mesh::BitmapIter (src/src/bitmap.h).  *)
(*                                                                         *)
(* A machine word (word_t = size_t, 64 bits) is modelled as the set of the *)
(* bit positions 0..63 that are 1 in it, so that ~, &, |, popcount and ffs *)
(* are exact.  A buffer is a function from word index to word.             *)
(***************************************************************************)
EXTENDS Integers, Sequences, FiniteSets

\* ------------------------------------------------------------------ bounds
\* The largest bitmap size an operation is called with (not a word multiple).
MaxBits == 126
\* The longest string of the exhaustive family of constructor strings.
MaxStrLen == 3
\* The number of buffers the memory provider can hold at a time.
HeapSlots == 1

\* ------------------------------------------------------- program constants
WORDBITS == 64
WORDBYTES == 8
WORDBITSHIFT == 6

\* nullptr
NULL == 0

\* ------------------------------------------------------------- word model
\* ~0UL: the word with every bit set.
AllOnes == 0 .. (WORDBITS - 1)

\* The word 0.
Zero == {}

\* ~w
Not(w) == AllOnes \ w

\* __builtin_popcountl(w)
popcountl(w) == Cardinality(w)

\* __builtin_ffsll(w): one plus the index of the least significant 1 bit, 0 for w = 0.
ffsll(w) == IF w = {} THEN 0 ELSE 1 + (CHOOSE b \in w : \A c \in w : b <= c)

\* A scan that forgets the offset mask: every position counts as at or above off.
NotBelowUnmasked(off) == AllOnes

\* ~((1UL << off) - 1): the bits at positions >= off.
NotBelow(off) == {b \in AllOnes : b >= off}

\* getMask(pos) == ((word_t)1) << pos
getMask(pos) == {pos}

\* index >> WORDBITSHIFT
ShiftRight(index) == index \div WORDBITS

\* item << WORDBITSHIFT
ShiftLeft(item) == item * WORDBITS

\* ------------------------------------------------------------ input sets
Obj == {1, 2}
Ptr == 1 .. HeapSlots

\* The sizes reserve and the size constructor are called with: empty, less than a
\* byte, one word exactly, and more than one word with a partial last word.
Sizes == {0, 5, WORDBITS, MaxBits}

\* The sizes of the bitmaps that are moved.
MoveSizes == {0, 5, WORDBITS, WORDBITS + 1}

\* The valid indexes the point operations are called with on a bitmap of n bits.
Indexes(n) == {i \in 0 .. (n - 1) : i \in {0, n - 1}}

\* The valid indexes setFirstEmpty is started at on a bitmap of n bits.
Starts(n) == {i \in 0 .. (n - 1) : i \in {0, n - 1}}

\* A string of n characters with '1' at the 0-based indexes in ones.
StrOf(n, ones) == [i \in 1 .. n |-> IF (i - 1) \in ones THEN "1" ELSE "0"]

\* All strings over '0' and '1' of length at most MaxStrLen.
ShortStrs == UNION {[1 .. n -> {"0", "1"}] : n \in 0 .. MaxStrLen}

\* Longer strings: less than a byte, a byte and more, one word, more than a word.
LongStrs ==
    {StrOf(n, ones \cap (0 .. (n - 1))) :
        n \in {6, 8, 9, WORDBITS, WORDBITS + 2},
        ones \in {{}, {0}, {1, 4, 5}, {7}, {0, WORDBITS - 1, WORDBITS}, 0 .. (WORDBITS + 1)}}

\* The strings the string constructor is called with.
Strs == ShortStrs \cup LongStrs

\* Strings with a character that is neither '0' nor '1': alone, before a '1', after
\* a '1', and after a '1' in a string long enough for tryToSet's assertions.
BadStrs ==
    {<<"x">>, <<"x", "1">>, <<"1", "x">>, <<"0", "x", "1">>,
     [i \in 1 .. WORDBYTES |-> IF i = 1 THEN "1" ELSE IF i = 2 THEN "x" ELSE "0"],
     [i \in 1 .. WORDBYTES |-> IF i = 1 THEN "x" ELSE IF i = 2 THEN "1" ELSE "0"]}

\* The strings of the lifecycle specification: of the sizes reserve is called with.
SizedStrs == UNION {{StrOf(n, {}), StrOf(n, {0, n - 1})} : n \in Sizes}

\* ------------------------------------------------------------------ state
VARIABLES
    debug,      \* the build: TRUE when d_assert is compiled in (NDEBUG not defined)
    status,     \* "running", "aborted" (abort() or a failed assertion), "ub"
    live,       \* the Bitmap objects constructed and not yet destroyed
    elements,   \* _elements of each object
    bitarray,   \* _bitarray of each object: NULL or a buffer of the heap
    heap,       \* the memory provider's buffers
    ret,        \* the last call: operation, object, argument, outcome, result
    it          \* the iterator in use: [obj, i], or NoIter

vars == <<debug, status, live, elements, bitarray, heap, ret, it>>

NoIter == [obj |-> 0, i |-> 0]
FreeBuf == [live |-> FALSE, bytes |-> 0, mem |-> <<>>]
NoRet == [op |-> "none", obj |-> 0, arg |-> 0, out |-> "ok", flag |-> FALSE, val |-> 0, str |-> <<>>]

Ret(op, o, arg, out, flag, val) ==
    [op |-> op, obj |-> o, arg |-> arg, out |-> out, flag |-> flag, val |-> val, str |-> <<>>]

\* ----------------------------------------------------------- memory provider
\* The number of word_t objects an allocation of the given bytes holds.
WordsIn(bytes) == bytes \div WORDBYTES

\* Heap::malloc(bytes): the lowest free buffer, nullptr when the provider has none.
\* The memory it hands out is not initialised (shown here as all-ones garbage).
MallocPtr(h) ==
    IF \E p \in Ptr : ~h[p].live
    THEN CHOOSE p \in Ptr : ~h[p].live /\ \A q \in Ptr : ~h[q].live => p <= q
    ELSE NULL

MallocHeap(h, bytes) ==
    LET p == MallocPtr(h) IN
    IF p = NULL THEN h
    ELSE [h EXCEPT ![p] = [live |-> TRUE, bytes |-> bytes,
                           mem |-> [i \in 0 .. (WordsIn(bytes) - 1) |-> AllOnes]]]

\* Heap::free(p)
FreeHeap(h, p) == [h EXCEPT ![p] = FreeBuf]

\* memset(p, 0, bytes)
Memset0(h, p, bytes) ==
    [h EXCEPT ![p].mem = [i \in DOMAIN h[p].mem |->
                             IF i < WordsIn(bytes) THEN Zero ELSE h[p].mem[i]]]

\* ------------------------------------------------------------------ Bitmap
\* wordCount(), for _elements = e
wordCount(e) == (WORDBITS * ((e + WORDBITS - 1) \div WORDBITS)) \div 8

\* bitCount()
bitCount(o) == elements[o]

\* computeItemPosition(index, item, position)
Item(index) == ShiftRight(index)
Position(index) == index % WORDBITS

\* The three d_asserts of computeItemPosition, for _elements = e.
computeItemPositionAsserts(e, index) ==
    /\ index < e
    /\ Position(index) = index - ShiftLeft(Item(index))
    /\ Item(index) < e \div WORDBYTES

\* d_assert(cond): fatal when the build compiles assertions in, nothing otherwise.
d_assert(dbg, cond) == dbg => cond

\* _bitarray[item] is a word of the buffer p (p is not null and item is inside it).
InBuffer(h, p, item) == p # NULL /\ item \in DOMAIN h[p].mem

\* How a point operation on (e, p) at a valid index ends before touching the word:
\* "assert" (a d_assert failed), "ub" (it reads outside a buffer), "ok".
PointOutcome(dbg, h, e, p, index) ==
    IF ~d_assert(dbg, computeItemPositionAsserts(e, index)) THEN "assert"
    ELSE IF ~InBuffer(h, p, Item(index)) THEN "ub"
    ELSE "ok"

\* tryToSetAt(item, position): the buffer afterwards, and the value returned.
tryToSetAtMem(mem, item, position) ==
    [mem EXCEPT ![item] = mem[item] \cup getMask(position)]

tryToSetAtRet(mem, item, position) == (mem[item] \cap getMask(position)) = Zero

\* unset(index): the buffer afterwards, and the value returned.
unsetMem(mem, index) ==
    [mem EXCEPT ![Item(index)] = mem[Item(index)] \ getMask(Position(index))]

unsetRet(mem, index) ==
    mem[Item(index)] # (mem[Item(index)] \ getMask(Position(index)))

\* isSet(index), on a buffer that holds the word
isSetMem(mem, index) == (mem[Item(index)] \cap getMask(Position(index))) # Zero

\* The buffer of object o.
MemOf(o) == heap[bitarray[o]].mem

\* The process state after an outcome.
StatusAfter(out) ==
    CASE out = "ok" -> "running"
      [] out = "assert" -> "aborted"
      [] out = "abort" -> "aborted"
      [] OTHER -> "ub"

\* reserve(nelts) on an object with _bitarray = p: the heap after the free, the
\* malloc and clear(), and the new _bitarray.
reserveHeap(h, p, nelts) ==
    LET h1 == IF p # NULL THEN FreeHeap(h, p) ELSE h
        q  == MallocPtr(h1)
        h2 == MallocHeap(h1, wordCount(nelts))
    IN  IF q # NULL THEN Memset0(h2, q, wordCount(nelts)) ELSE h2

reservePtr(h, p) == MallocPtr(IF p # NULL THEN FreeHeap(h, p) ELSE h)

\* d_assert(_bitarray != nullptr) of reserve
reserveOutcome(dbg, h, p) ==
    IF d_assert(dbg, reservePtr(h, p) # NULL) THEN "ok" ELSE "assert"

\* The least element of a non-empty set of integers.
Min(S) == CHOOSE x \in S : \A y \in S : x <= y

\* The loop of Bitmap(const std::string &): it stops at the first character at
\* which a d_assert fails or tryToSet leaves the buffer, with the '1' characters
\* before that one set.  mem is the buffer of p (<<>> when p is null).
strCtorLoopOutcome(dbg, e, p, mem, str, i) ==
    IF ~d_assert(dbg, str[i + 1] \in {"0", "1"}) THEN "assert"
    ELSE IF str[i + 1] # "1" THEN "ok"
    ELSE IF ~d_assert(dbg, computeItemPositionAsserts(e, i)) THEN "assert"
    ELSE IF p = NULL \/ Item(i) \notin DOMAIN mem THEN "ub"
    ELSE "ok"

strCtorLoop(dbg, e, p, mem, str) ==
    LET bad  == {i \in 0 .. (Len(str) - 1) : strCtorLoopOutcome(dbg, e, p, mem, str, i) # "ok"}
        stop == IF bad = {} THEN Len(str) ELSE Min(bad)
    IN  [out |-> IF bad = {} THEN "ok" ELSE strCtorLoopOutcome(dbg, e, p, mem, str, stop),
         mem |-> [w \in DOMAIN mem |->
                    mem[w] \cup {b \in AllOnes : WORDBITS * w + b < stop
                                                 /\ str[WORDBITS * w + b + 1] = "1"}]]

\* The scan of setFirstEmpty from word i with offset off, over words = wordCount():
\* "found" (a free bit at word item, position off), "full" (the loop ended: abort()),
\* "oob" (it reads _bitarray[item] outside the buffer), "assert".
RECURSIVE setFirstEmptyScan(_, _, _, _, _)
setFirstEmptyScan(dbg, mem, words, i, off) ==
    IF i >= words THEN [kind |-> "full", item |-> i, off |-> 0]
    ELSE IF i \notin DOMAIN mem THEN [kind |-> "oob", item |-> i, off |-> off]
    ELSE IF mem[i] = AllOnes THEN setFirstEmptyScan(dbg, mem, words, i + 1, 0)
    ELSE IF ~d_assert(dbg, off <= 63 /\ Not(mem[i]) # Zero)
         THEN [kind |-> "assert", item |-> i, off |-> off]
    ELSE IF (Not(mem[i]) \cap NotBelow(off)) = Zero
         THEN setFirstEmptyScan(dbg, mem, words, i + 1, 0)
    ELSE [kind |-> "found", item |-> i, off |-> ffsll(Not(mem[i]) \cap NotBelow(off)) - 1]

\* The loop of lowestSetBit from word i: "found", "none" (returns bitCount()),
\* "oob" (it reads _bitarray[item] outside the buffer).
RECURSIVE lowestSetBitScan(_, _, _)
lowestSetBitScan(mem, words, i) ==
    IF i >= words THEN [kind |-> "none", item |-> i, off |-> 0]
    ELSE IF i \notin DOMAIN mem THEN [kind |-> "oob", item |-> i, off |-> 0]
    ELSE IF mem[i] = Zero THEN lowestSetBitScan(mem, words, i + 1)
    ELSE [kind |-> "found", item |-> i, off |-> ffsll(mem[i]) - 1]

\* The loop of inUseCount from word i, over the words below _elements / WORDBITS.
RECURSIVE inUseCountLoop(_, _, _)
inUseCountLoop(mem, e, i) ==
    IF i >= e \div WORDBITS THEN 0
    ELSE popcountl(mem[i]) + inUseCountLoop(mem, e, i + 1)

\* inUseCount() reads only inside the buffer.
inUseCountInBuffer(h, e, p) ==
    \A i \in 0 .. ((e \div WORDBITS) - 1) : InBuffer(h, p, i)

\* The positions outside a buffer at which a read past its end is taken to find
\* the first bit that differs from the words before it (a bound on the garbage).
GarbageBits == {0, WORDBITS - 1}

\* ------------------------------------------------------------------- Init
\* No Bitmap has been constructed; the build is either one.
Init ==
    /\ debug \in BOOLEAN
    /\ status = "running"
    /\ live = {}
    /\ elements = [o \in Obj |-> 0]
    /\ bitarray = [o \in Obj |-> NULL]
    /\ heap = [p \in Ptr |-> FreeBuf]
    /\ ret = NoRet
    /\ it = NoIter

\* ---------------------------------------------------------------- actions
\* Bitmap(size_t nBits): the members' initialisers, then reserve(nBits).
Construct(o, n) ==
    /\ status = "running" /\ o \notin live
    /\ live' = live \cup {o}
    /\ elements' = [elements EXCEPT ![o] = n]
    /\ bitarray' = [bitarray EXCEPT ![o] = reservePtr(heap, NULL)]
    /\ heap' = reserveHeap(heap, NULL, n)
    /\ status' = StatusAfter(reserveOutcome(debug, heap, NULL))
    /\ ret' = Ret("Bitmap", o, n, reserveOutcome(debug, heap, NULL), FALSE, 0)
    /\ it' = NoIter
    /\ UNCHANGED debug

\* Bitmap(const std::string &str): reserve(str.length()), then the loop.
ConstructStr(o, str) ==
    /\ status = "running" /\ o \notin live
    /\ LET p  == reservePtr(heap, NULL)
           h1 == reserveHeap(heap, NULL, Len(str))
           r  == IF reserveOutcome(debug, heap, NULL) # "ok"
                 THEN [out |-> "assert", mem |-> <<>>]
                 ELSE strCtorLoop(debug, Len(str), p,
                                  IF p = NULL THEN <<>> ELSE h1[p].mem, str)
       IN  /\ heap' = IF p = NULL THEN h1 ELSE [h1 EXCEPT ![p].mem = r.mem]
           /\ bitarray' = [bitarray EXCEPT ![o] = p]
           /\ status' = StatusAfter(r.out)
           /\ ret' = [Ret("BitmapStr", o, Len(str), r.out, FALSE, 0) EXCEPT !.str = str]
    /\ live' = live \cup {o}
    /\ elements' = [elements EXCEPT ![o] = Len(str)]
    /\ it' = NoIter
    /\ UNCHANGED debug

\* A move constructor that copies the members and leaves the source as it was.
MoveConstructCopying(o, rhs) ==
    /\ status = "running" /\ o \notin live /\ rhs \in live
    /\ live' = live \cup {o}
    /\ elements' = [elements EXCEPT ![o] = elements[rhs]]
    /\ bitarray' = [bitarray EXCEPT ![o] = bitarray[rhs]]
    /\ ret' = Ret("move", o, rhs, "ok", FALSE, 0)
    /\ it' = NoIter
    /\ UNCHANGED <<debug, status, heap>>

\* Bitmap(Bitmap &&rhs)
MoveConstruct(o, rhs) ==
    /\ status = "running" /\ o \notin live /\ rhs \in live
    /\ live' = live \cup {o}
    /\ elements' = [elements EXCEPT ![o] = elements[rhs]]
    /\ bitarray' = [bitarray EXCEPT ![o] = bitarray[rhs], ![rhs] = NULL]
    /\ ret' = Ret("move", o, rhs, "ok", FALSE, 0)
    /\ it' = NoIter
    /\ UNCHANGED <<debug, status, heap>>

\* ~Bitmap(); the object's storage is gone afterwards.
Destroy(o) ==
    /\ status = "running" /\ o \in live
    /\ live' = live \ {o}
    /\ heap' = IF bitarray[o] # NULL THEN FreeHeap(heap, bitarray[o]) ELSE heap
    /\ bitarray' = [bitarray EXCEPT ![o] = NULL]
    /\ elements' = [elements EXCEPT ![o] = 0]
    /\ ret' = Ret("destroy", o, 0, "ok", FALSE, 0)
    /\ it' = NoIter
    /\ UNCHANGED <<debug, status>>

\* reserve(nelts)
Reserve(o, nelts) ==
    /\ status = "running" /\ o \in live
    /\ heap' = reserveHeap(heap, bitarray[o], nelts)
    /\ elements' = [elements EXCEPT ![o] = nelts]
    /\ bitarray' = [bitarray EXCEPT ![o] = reservePtr(heap, bitarray[o])]
    /\ status' = StatusAfter(reserveOutcome(debug, heap, bitarray[o]))
    /\ ret' = Ret("reserve", o, nelts, reserveOutcome(debug, heap, bitarray[o]), FALSE, 0)
    /\ it' = NoIter
    /\ UNCHANGED <<debug, live>>

\* clear()
Clear(o) ==
    /\ status = "running" /\ o \in live
    /\ heap' = IF bitarray[o] # NULL
               THEN Memset0(heap, bitarray[o], wordCount(elements[o]))
               ELSE heap
    /\ ret' = Ret("clear", o, 0, "ok", FALSE, 0)
    /\ it' = NoIter
    /\ UNCHANGED <<debug, status, live, elements, bitarray>>

\* tryToSet(index), index < _elements
TryToSet(o, index) ==
    /\ status = "running" /\ o \in live /\ index < elements[o]
    /\ LET out == PointOutcome(debug, heap, elements[o], bitarray[o], index) IN
       /\ status' = StatusAfter(out)
       /\ IF out = "ok"
          THEN /\ heap' = [heap EXCEPT ![bitarray[o]].mem =
                              tryToSetAtMem(MemOf(o), Item(index), Position(index))]
               /\ ret' = Ret("tryToSet", o, index, out,
                             tryToSetAtRet(MemOf(o), Item(index), Position(index)), 0)
          ELSE /\ heap' = heap
               /\ ret' = Ret("tryToSet", o, index, out, FALSE, 0)
    /\ it' = NoIter
    /\ UNCHANGED <<debug, live, elements, bitarray>>

\* unset(index), index < _elements
Unset(o, index) ==
    /\ status = "running" /\ o \in live /\ index < elements[o]
    /\ LET out == PointOutcome(debug, heap, elements[o], bitarray[o], index) IN
       /\ status' = StatusAfter(out)
       /\ IF out = "ok"
          THEN /\ heap' = [heap EXCEPT ![bitarray[o]].mem = unsetMem(MemOf(o), index)]
               /\ ret' = Ret("unset", o, index, out, unsetRet(MemOf(o), index), 0)
          ELSE /\ heap' = heap
               /\ ret' = Ret("unset", o, index, out, FALSE, 0)
    /\ it' = NoIter
    /\ UNCHANGED <<debug, live, elements, bitarray>>

\* isSet(index), index < _elements
IsSet(o, index) ==
    /\ status = "running" /\ o \in live /\ index < elements[o]
    /\ LET out == PointOutcome(debug, heap, elements[o], bitarray[o], index) IN
       /\ status' = StatusAfter(out)
       /\ ret' = Ret("isSet", o, index, out,
                     IF out = "ok" THEN isSetMem(MemOf(o), index) ELSE FALSE, 0)
    /\ UNCHANGED <<debug, live, elements, bitarray, heap, it>>

\* wordCount()
WordCount(o) ==
    /\ status = "running" /\ o \in live
    /\ ret' = Ret("wordCount", o, 0, "ok", FALSE, wordCount(elements[o]))
    /\ UNCHANGED <<debug, status, live, elements, bitarray, heap, it>>

\* inUseCount()
InUseCount(o) ==
    /\ status = "running" /\ o \in live
    /\ LET out == IF inUseCountInBuffer(heap, elements[o], bitarray[o]) THEN "ok" ELSE "ub" IN
       /\ status' = StatusAfter(out)
       /\ ret' = Ret("inUseCount", o, 0, out, FALSE,
                     IF out = "ok"
                     THEN inUseCountLoop(IF bitarray[o] = NULL THEN <<>> ELSE MemOf(o),
                                         elements[o], 0)
                     ELSE 0)
    /\ UNCHANGED <<debug, live, elements, bitarray, heap, it>>

\* setFirstEmpty(startingAt), startingAt < _elements.  A read of _bitarray[i]
\* outside the buffer is undefined: the call may crash, may find every such word
\* all-ones and reach abort(), or may find a zero bit in one of them, set it
\* (a write outside the buffer) and return its index.
SetFirstEmpty(o, startingAt) ==
    /\ status = "running" /\ o \in live /\ startingAt < elements[o]
    /\ LET out0 == PointOutcome(debug, heap, elements[o], bitarray[o], startingAt)
           words == wordCount(elements[o])
           scan == setFirstEmptyScan(debug, MemOf(o), words,
                                     Item(startingAt), Position(startingAt))
       IN  IF out0 # "ok"
           THEN /\ status' = StatusAfter(out0)
                /\ ret' = Ret("setFirstEmpty", o, startingAt, out0, FALSE, 0)
                /\ heap' = heap
           ELSE CASE scan.kind = "found" ->
                       /\ status' = status
                       /\ heap' = [heap EXCEPT ![bitarray[o]].mem =
                                       tryToSetAtMem(MemOf(o), scan.item, scan.off)]
                       /\ ret' = Ret("setFirstEmpty", o, startingAt, "ok", FALSE,
                                     WORDBITS * scan.item + scan.off)
                  [] scan.kind = "assert" ->
                       /\ status' = "aborted"
                       /\ heap' = heap
                       /\ ret' = Ret("setFirstEmpty", o, startingAt, "assert", FALSE, 0)
                  [] scan.kind = "full" ->
                       /\ status' = "aborted"
                       /\ heap' = heap
                       /\ ret' = Ret("setFirstEmpty", o, startingAt, "abort", FALSE, 0)
                  [] OTHER ->
                       /\ heap' = heap
                       /\ \/ /\ status' = "ub"
                             /\ ret' = Ret("setFirstEmpty", o, startingAt, "ub", FALSE, 0)
                          \/ /\ status' = "aborted"
                             /\ ret' = Ret("setFirstEmpty", o, startingAt, "abort", FALSE, 0)
                          \/ \E i \in scan.item .. (words - 1), b \in GarbageBits :
                                /\ status' = "ub"
                                /\ ret' = Ret("setFirstEmpty", o, startingAt, "oob", FALSE,
                                              WORDBITS * i + b)
    /\ it' = NoIter
    /\ UNCHANGED <<debug, live, elements, bitarray>>

\* The loop of to_string over the first nElements indexes: it stops at the first
\* index at which isSet fails, with the characters before that one written.
to_stringLoop(dbg, h, e, p, nElements) ==
    LET bad  == {i \in 0 .. (nElements - 1) : PointOutcome(dbg, h, e, p, i) # "ok"}
        stop == IF bad = {} THEN nElements ELSE Min(bad)
    IN  [out |-> IF bad = {} THEN "ok" ELSE PointOutcome(dbg, h, e, p, stop),
         str |-> [i \in 1 .. stop |-> IF isSetMem(h[p].mem, i - 1) THEN "1" ELSE "0"]]

\* to_string(nElements), nElements = -1 standing for _elements
to_string(dbg, h, e, p, nElements) ==
    LET n == IF nElements = -1 THEN e ELSE nElements IN
    IF ~d_assert(dbg, 0 <= n /\ n <= e) THEN [out |-> "assert", str |-> <<>>]
    ELSE to_stringLoop(dbg, h, e, p, n)

\* to_string()
ToString(o) ==
    /\ status = "running" /\ o \in live
    /\ LET r == to_string(debug, heap, elements[o], bitarray[o], -1) IN
       /\ status' = StatusAfter(r.out)
       /\ ret' = [Ret("to_string", o, -1, r.out, FALSE, 0) EXCEPT !.str = r.str]
    /\ UNCHANGED <<debug, live, elements, bitarray, heap, it>>

\* ---------------------------------------------------------------- iterator
\* begin(): iterator(*this, lowestSetBit()).  A read of _bitarray[i] outside the
\* buffer is undefined: the call may crash, may find a set bit in such a word and
\* return its index, or may find every such word zero and return bitCount().
Begin(o) ==
    /\ status = "running" /\ o \in live
    /\ LET words == wordCount(elements[o])
           scan == lowestSetBitScan(IF bitarray[o] = NULL THEN <<>> ELSE MemOf(o), words, 0)
       IN  CASE scan.kind = "found" ->
                  /\ status' = status
                  /\ ret' = Ret("begin", o, 0, "ok", FALSE, WORDBITS * scan.item + scan.off)
                  /\ it' = [obj |-> o, i |-> WORDBITS * scan.item + scan.off]
             [] scan.kind = "none" ->
                  /\ status' = status
                  /\ ret' = Ret("begin", o, 0, "ok", FALSE, bitCount(o))
                  /\ it' = [obj |-> o, i |-> bitCount(o)]
             [] OTHER ->
                  /\ status' = "ub"
                  /\ \/ /\ ret' = Ret("begin", o, 0, "ub", FALSE, 0)
                        /\ it' = NoIter
                     \/ /\ ret' = Ret("begin", o, 0, "oob", FALSE, bitCount(o))
                        /\ it' = [obj |-> o, i |-> bitCount(o)]
                     \/ \E i \in scan.item .. (words - 1), b \in GarbageBits :
                           /\ ret' = Ret("begin", o, 0, "oob", FALSE, WORDBITS * i + b)
                           /\ it' = [obj |-> o, i |-> WORDBITS * i + b]
    /\ UNCHANGED <<debug, live, elements, bitarray, heap>>

\* The for loop of operator++ from next on: it stops at the first index that is
\* not below bitCount(), or at which isSet fails, or whose bit is set.
advanceLoop(dbg, h, e, p, next) ==
    LET stop == Min({j \in next .. (IF e > next THEN e ELSE next) :
                        \/ ~(j < e)
                        \/ PointOutcome(dbg, h, e, p, j) # "ok"
                        \/ isSetMem(h[p].mem, j)})
    IN  [out |-> IF stop < e THEN PointOutcome(dbg, h, e, p, stop) ELSE "ok", next |-> stop]

\* operator++ on an iterator at _i: the loop, then the bump of a stop at the last,
\* unset element.  bitCount() - 1 is unsigned: for bitCount() = 0 it is the largest
\* size_t, which next never equals.
advance(dbg, h, e, p, i) ==
    LET r == advanceLoop(dbg, h, e, p, i + 1) IN
    IF r.out # "ok" THEN r
    ELSE IF e > 0 /\ r.next = e - 1 /\ ~isSetMem(h[p].mem, r.next)
         THEN [out |-> "ok", next |-> r.next + 1]
    ELSE r

\* ++it, on an iterator that differs from end()
Advance ==
    /\ status = "running" /\ it # NoIter /\ it.i # bitCount(it.obj)
    /\ LET r == advance(debug, heap, elements[it.obj], bitarray[it.obj], it.i) IN
       /\ status' = StatusAfter(r.out)
       /\ ret' = Ret("advance", it.obj, it.i, r.out, FALSE, r.next)
       /\ it' = [it EXCEPT !.i = r.next]
    /\ UNCHANGED <<debug, live, elements, bitarray, heap>>

\* ------------------------------------------------------------ specification
\* One Bitmap and every operation on it but moving, to_string and iteration.
Next ==
    \/ \E n \in Sizes : Construct(1, n)
    \/ \E str \in SizedStrs : ConstructStr(1, str)
    \/ Destroy(1)
    \/ \E n \in Sizes : Reserve(1, n)
    \/ Clear(1)
    \/ \E k \in Starts(elements[1]) : SetFirstEmpty(1, k)
    \/ \E i \in Indexes(elements[1]) : TryToSet(1, i)
    \/ \E i \in Indexes(elements[1]) : Unset(1, i)
    \/ \E i \in Indexes(elements[1]) : IsSet(1, i)
    \/ InUseCount(1)

Spec == Init /\ [][Next]_vars

\* The same, in the build without assertions (NDEBUG).
InitRelease == Init /\ ~debug

SpecRelease == InitRelease /\ [][Next]_vars

\* Two Bitmap objects, constructed, moved into one another, reserved and destroyed,
\* sharing the memory provider; no scan, so that the buffers stay small.
NextMove ==
    \/ \E o \in Obj, n \in MoveSizes : Construct(o, n)
    \/ \E o \in Obj, rhs \in Obj : MoveConstruct(o, rhs)
    \/ \E o \in Obj : Destroy(o)
    \/ \E o \in Obj, n \in MoveSizes : Reserve(o, n)
    \/ \E o \in Obj : Clear(o)
    \/ \E o \in Obj : \E i \in Indexes(elements[o]) : TryToSet(o, i)
    \/ \E o \in Obj : \E i \in Indexes(elements[o]) : Unset(o, i)
    \/ \E o \in Obj : \E i \in Indexes(elements[o]) : IsSet(o, i)
    \/ \E o \in Obj : InUseCount(o)
    \/ \E o \in Obj : WordCount(o)

SpecMove == Init /\ [][NextMove]_vars

\* Bitmaps built from strings, changed bit by bit, and iterated.
NextIter ==
    \/ \E str \in Strs : ConstructStr(1, str)
    \/ \E str \in BadStrs : ConstructStr(1, str)
    \/ Destroy(1)
    \/ \E i \in Indexes(elements[1]) : TryToSet(1, i)
    \/ \E i \in Indexes(elements[1]) : Unset(1, i)
    \/ ToString(1)
    \/ InUseCount(1)
    \/ Begin(1)
    \/ Advance

SpecIter == Init /\ [][NextIter]_vars

\* The last two specifications in the build without assertions.
SpecMoveRelease == InitRelease /\ [][NextMove]_vars

SpecIterRelease == InitRelease /\ [][NextIter]_vars

\* ------------------------------------------------------------------ claims
\* Object o is a bitmap with a buffer.
HasBuffer(o) == o \in live /\ bitarray[o] # NULL

\* The indexes below e whose bit is 1 in mem.
SetBits(mem, e) == {i \in 0 .. (e - 1) : isSetMem(mem, i)}

\* The indexes in [k, e) whose bit is 0 in mem.
FreeFrom(mem, e, k) == {i \in k .. (e - 1) : ~isSetMem(mem, i)}

\* The call returned to its caller.
Returned(r) == r.out \in {"ok", "oob"}

\* The call ended the process (abort() or a failed assertion).
Terminated(r) == r.out \in {"abort", "assert"}

\* C1: whenever some index in [startingAt, elementCount) is unset,
\* setFirstEmpty(startingAt) returns the lowest index >= startingAt whose bit was 0
\* before the call, and that bit is 1 after the call.
C1_FirstFit ==
    [][\A k \in Starts(elements[1]) :
          (/\ HasBuffer(1)
           /\ FreeFrom(MemOf(1), elements[1], k) # {}
           /\ SetFirstEmpty(1, k))
          => /\ ret'.out = "ok"
             /\ ret'.val = Min(FreeFrom(MemOf(1), elements[1], k))
             /\ isSetMem(heap'[bitarray'[1]].mem, ret'.val)]_vars

\* C2: setFirstEmpty either returns an index below elementCount or ends the process;
\* when every bit in [startingAt, elementCount) is set it ends the process, returns
\* nothing and sets no bit.
C2_ValidOrAbort ==
    [][\A k \in Starts(elements[1]) :
          (HasBuffer(1) /\ SetFirstEmpty(1, k))
          => /\ Returned(ret') => ret'.val < elements[1]
             /\ Returned(ret') \/ Terminated(ret')
             /\ FreeFrom(MemOf(1), elements[1], k) = {}
                  => Terminated(ret') /\ heap' = heap]_vars

\* C3: on a bitmap of size n >= 1 whose set bits are exactly 0 .. j-1 (the state j
\* calls of setFirstEmpty(0) on the all-unset bitmap leave), setFirstEmpty(0)
\* returns j when j < n, and aborts when j = n.
C3_Sequential ==
    [][\A j \in 0 .. elements[1] :
          (/\ HasBuffer(1)
           /\ elements[1] >= 1
           /\ \A w \in DOMAIN MemOf(1) :
                  MemOf(1)[w] = {b \in AllOnes : WORDBITS * w + b < j}
           /\ SetFirstEmpty(1, 0))
          => IF j < elements[1]
             THEN ret'.out = "ok" /\ ret'.val = j
             ELSE ret'.out = "abort"]_vars

\* C4: inUseCount() is the number of indexes below elementCount whose bit is set,
\* in every state of a bitmap.
C4_InUseCountExact ==
    \A o \in Obj :
        (status = "running" /\ HasBuffer(o))
        => inUseCountLoop(MemOf(o), elements[o], 0)
             = Cardinality(SetBits(MemOf(o), elements[o]))

\* C5: tryToSet(i) on a valid index returns true iff bit i was 0 before the call,
\* and leaves bit i set.
C5_TryToSetOnce ==
    [][\A i \in Indexes(elements[1]) :
          (HasBuffer(1) /\ TryToSet(1, i))
          => /\ ret'.out = "ok"
             /\ ret'.flag = ~isSetMem(MemOf(1), i)
             /\ isSetMem(heap'[bitarray'[1]].mem, i)]_vars

\* C6: unset(i) on a valid index returns true iff bit i was 1 before the call and
\* leaves bit i clear; on an unset bit it returns false and inUseCount() is unchanged.
C6_Unset ==
    [][\A i \in Indexes(elements[1]) :
          (HasBuffer(1) /\ Unset(1, i))
          => /\ ret'.out = "ok"
             /\ ret'.flag = isSetMem(MemOf(1), i)
             /\ ~isSetMem(heap'[bitarray'[1]].mem, i)
             /\ ~isSetMem(MemOf(1), i)
                  => /\ ~ret'.flag
                     /\ inUseCountLoop(heap'[bitarray'[1]].mem, elements'[1], 0)
                          = inUseCountLoop(MemOf(1), elements[1], 0)]_vars

\* The lowest index >= from whose bit is set in mem, or e when there is none.
NextSet(mem, e, from) == Min({i \in SetBits(mem, e) : i >= from} \cup {e})

\* C7: begin() is the lowest set index, or end() = elementCount when no bit is set;
\* advancing an iterator that differs from end() moves it to the next set index
\* above it, or exactly to elementCount when there is none: the iteration visits
\* the set bits, each once and in ascending order, and stops at elementCount.
C7_Iteration ==
    [][/\ (HasBuffer(1) /\ Begin(1))
            => /\ ret'.out = "ok"
               /\ it'.i = NextSet(MemOf(1), elements[1], 0)
       /\ (HasBuffer(1) /\ Advance)
            => /\ ret'.out = "ok"
               /\ it'.i = NextSet(MemOf(1), elements[1], it.i + 1)]_vars

\* C8: a Bitmap constructed from a string S of '0' and '1' has bitCount() = Len(S),
\* and its to_string() returns S.
C8_RoundTrip ==
    [][\A str \in Strs :
          ConstructStr(1, str)
          => /\ ret'.out = "ok"
             /\ elements'[1] = Len(str)
             /\ to_string(debug, heap', elements'[1], bitarray'[1], -1)
                  = [out |-> "ok", str |-> str]]_vars

\* C9: after a reserve(n) that the memory provider satisfies, from any prior state:
\* bitCount() = n, inUseCount() = 0 and isSet(i) is false for every i below n.
C9_ReserveResets ==
    [][\A o \in Obj, n \in MoveSizes :
          (reservePtr(heap, bitarray[o]) # NULL /\ Reserve(o, n))
          => /\ ret'.out = "ok"
             /\ elements'[o] = n
             /\ inUseCountInBuffer(heap', elements'[o], bitarray'[o])
             /\ inUseCountLoop(heap'[bitarray'[o]].mem, elements'[o], 0) = 0
             /\ \A i \in 0 .. (n - 1) :
                   /\ PointOutcome(debug, heap', elements'[o], bitarray'[o], i) = "ok"
                   /\ ~isSetMem(heap'[bitarray'[o]].mem, i)]_vars

\* C10: after clear(), from any prior state: inUseCount() = 0 and isSet(i) is false
\* for every i below elementCount; elementCount and the buffer are the ones before
\* the call; on a bitmap with no buffer nothing changes.
C10_Clear ==
    [][\A o \in Obj :
          Clear(o)
          => /\ elements' = elements
             /\ bitarray' = bitarray
             /\ bitarray[o] = NULL => heap' = heap
             /\ inUseCountInBuffer(heap', elements'[o], bitarray'[o])
             /\ bitarray[o] # NULL
                  => /\ heap'[bitarray[o]].bytes = heap[bitarray[o]].bytes
                     /\ inUseCountLoop(heap'[bitarray'[o]].mem, elements'[o], 0) = 0
             /\ \A i \in 0 .. (elements[o] - 1) :
                   /\ PointOutcome(debug, heap', elements'[o], bitarray'[o], i) = "ok"
                   /\ ~isSetMem(heap'[bitarray'[o]].mem, i)]_vars

\* C11: whenever setFirstEmpty(startingAt) returns, the index it returns is at least
\* startingAt, also when startingAt is inside a word whose lower bits are unset.
C11_NotBelowStart ==
    [][\A k \in Starts(elements[1]) :
          (SetFirstEmpty(1, k) /\ Returned(ret'))
          => ret'.val >= k]_vars

\* setFirstEmpty was started inside a word whose bits below the start are all
\* unset, and returned.
C11_Witness ==
    /\ ret.op = "setFirstEmpty" /\ ret.out = "ok"
    /\ HasBuffer(1)
    /\ Position(ret.arg) > 0
    /\ MemOf(1)[Item(ret.arg)] \cap (0 .. (Position(ret.arg) - 1)) = Zero
    /\ ret.val >= ret.arg

\* ceil(e / WORDBITS): the number of words that hold e bits.
CeilWords(e) == (e + WORDBITS - 1) \div WORDBITS

\* C12: for every elementCount, wordCount() returns the number of machine words
\* backing the bitmap, ceil(elementCount / WORDBITS).
C12_WordCount ==
    [][\A o \in Obj :
          WordCount(o) => ret'.val = CeilWords(elements[o])]_vars

\* The buffers the memory provider has handed out and not got back.
LiveBufs(h) == {p \in Ptr : h[p].live}

\* C13: a reserve (also the one of a constructor) releases the bitmap's prior buffer,
\* which is still allocated, and then allocates once; destruction releases the
\* buffer the bitmap holds, which is still allocated; a move neither allocates nor
\* releases; every allocated buffer is held by exactly one bitmap (so it is released
\* once, by that one), and none is allocated once all bitmaps are destroyed.
C13_AllocRelease ==
    [][/\ \A o \in Obj, n \in MoveSizes :
             (Reserve(o, n) \/ Construct(o, n))
             => /\ bitarray[o] # NULL => bitarray[o] \in LiveBufs(heap)
                /\ bitarray'[o] \notin LiveBufs(heap) \ {bitarray[o]}
                /\ LiveBufs(heap') = (LiveBufs(heap) \ {bitarray[o]})
                                        \cup ({bitarray'[o]} \ {NULL})
       /\ \A o \in Obj :
             Destroy(o)
             => /\ bitarray[o] # NULL => bitarray[o] \in LiveBufs(heap)
                /\ LiveBufs(heap') = LiveBufs(heap) \ {bitarray[o]}
       /\ \A o \in Obj, rhs \in Obj : MoveConstruct(o, rhs) => heap' = heap
       /\ \A p \in Ptr :
             heap'[p].live <=> Cardinality({o \in live' : bitarray'[o] = p}) = 1
       /\ \A o \in Obj \ live' : bitarray'[o] = NULL
       /\ live' = {} => LiveBufs(heap') = {}]_vars

\* A bitmap has just been moved into: it alone holds the only allocated buffer.
C13_Witness ==
    /\ ret.op = "move" /\ ret.obj = 2
    /\ live = {1, 2}
    /\ bitarray[2] # NULL /\ bitarray[1] = NULL
    /\ LiveBufs(heap) = {bitarray[2]}

\* C14: after Bitmap(Bitmap &&rhs) the new bitmap has the source's buffer and
\* elementCount, and the source has a null buffer and elementCount 0.
C14_MoveEmptiesSource ==
    [][\A o \in Obj, rhs \in Obj :
          MoveConstruct(o, rhs)
          => /\ bitarray'[o] = bitarray[rhs]
             /\ elements'[o] = elements[rhs]
             /\ bitarray'[rhs] = NULL
             /\ elements'[rhs] = 0]_vars

\* C15: constructing a Bitmap from a string with a character other than '0' and
\* '1' fails, wherever the character is, and no bit of the bitmap has been set.
C15_InvalidInput ==
    [][\A str \in BadStrs :
          ConstructStr(1, str)
          => /\ ret'.out # "ok"
             /\ bitarray'[1] # NULL
                  => \A w \in DOMAIN heap'[bitarray'[1]].mem :
                        heap'[bitarray'[1]].mem[w] = Zero]_vars

\* C16: when the memory provider cannot satisfy the allocation of reserve(n), n >= 1
\* (also the one of a constructor), the call fails, and the bitmap has no buffer and
\* elementCount 0, its prior buffer released.
C16_AllocationFailure ==
    [][\A o \in Obj, n \in MoveSizes \ {0} :
          (reservePtr(heap, bitarray[o]) = NULL /\ (Reserve(o, n) \/ Construct(o, n)))
          => /\ ret'.out # "ok"
             /\ bitarray'[o] = NULL
             /\ elements'[o] = 0
             /\ bitarray[o] # NULL => ~heap'[bitarray[o]].live]_vars

\* C17: in every state of a bitmap, every bit of its buffer at an index at or above
\* elementCount is 0.
C17_PaddingZero ==
    \A o \in Obj :
        HasBuffer(o)
        => \A w \in DOMAIN MemOf(o) :
              \A b \in MemOf(o)[w] : WORDBITS * w + b < elements[o]

\* C18: in every state of every Bitmap object, also one that was moved from and one
\* whose reserve could not obtain memory, elementCount > 0 implies a buffer.
C18_StorageNonNull ==
    \A o \in live :
        (status = "running" /\ elements[o] > 0) => bitarray[o] # NULL

\* C19: no operation reads or writes a word outside the buffer of its bitmap.
C19_InBounds == ret.out \notin {"ub", "oob"}

\* C20: isSet, tryToSet, unset and setFirstEmpty called with a valid index on a
\* bitmap of elementCount >= 1 never fail an assertion.
C20_AssertionsHold ==
    [][\A i \in Indexes(elements[1]) :
          (IsSet(1, i) \/ TryToSet(1, i) \/ Unset(1, i) \/ SetFirstEmpty(1, i))
          => ret'.out # "assert"]_vars

====
